---------------------------- MODULE Spec2Model ----------------------------
(***************************************************************************)
(* Profile (linkedin/profile_parser.py): accessor rules over a parsed      *)
(* document, with the attribute-based cache decorator.                     *)
(*                                                                         *)
(* A document is the parsed tree in document (pre-order) order: a sequence *)
(* of nodes, each naming its parent (0: a child of the soup itself).       *)
(* Strings are sequences of one-character strings, so that lower(),        *)
(* strip(), split(), isdigit() and int() are computed, not assumed.        *)
(***************************************************************************)
EXTENDS Integers, Sequences, FiniteSets

VARIABLES
    soup,      \* self.soup: the parsed document
    attrs,     \* the attributes the decorator sets on the instance
    called,    \* the accessor called last ("" before the first call)
    out,       \* what that call returned or raised
    ran,       \* the accessors whose lookup over the document ran in that call
    again,     \* whether that accessor had been called on the instance before
    hist       \* per memoized accessor, what its last call returned or raised

vars == <<soup, attrs, called, out, ran, again, hist>>

---------------------------------------------------------------------------
(* Python values: None, str, int, list (of str or None), or a raised error *)

PyNone == [kind |-> "None", s |-> <<>>, n |-> 0, l |-> <<>>, err |-> "", msg |-> ""]

PyStr(chars) == [kind |-> "str", s |-> chars, n |-> 0, l |-> <<>>, err |-> "", msg |-> ""]

PyInt(i) == [kind |-> "int", s |-> <<>>, n |-> i, l |-> <<>>, err |-> "", msg |-> ""]

PyList(items) == [kind |-> "list", s |-> <<>>, n |-> 0, l |-> items, err |-> "", msg |-> ""]

Raise(e, m) == [kind |-> "raise", s |-> <<>>, n |-> 0, l |-> <<>>, err |-> e, msg |-> m]

IsRaise(v) == v.kind = "raise"

\* None.string, None.find_all(...), None.lower()
NoneAttr == Raise("AttributeError", "NoneType has no attribute")

---------------------------------------------------------------------------
(* Characters and the str methods the accessors use                        *)

UpperCase == <<"A","B","C","D","E","F","G","H","I","J","K","L","M",
               "N","O","P","Q","R","S","T","U","V","W","X","Y","Z">>

LowerCase == <<"a","b","c","d","e","f","g","h","i","j","k","l","m",
               "n","o","p","q","r","s","t","u","v","w","x","y","z">>

Digits == <<"0","1","2","3","4","5","6","7","8","9">>

Whitespace == {" ", "\t", "\n", "\r"}

\* str.lower() on one character
LowerChar(c) ==
    IF \E i \in 1..Len(UpperCase) : UpperCase[i] = c
    THEN LowerCase[CHOOSE i \in 1..Len(UpperCase) : UpperCase[i] = c]
    ELSE c

lower(str) == [i \in 1..Len(str) |-> LowerChar(str[i])]

RECURSIVE lstrip(_)
lstrip(str) ==
    IF str # <<>> /\ Head(str) \in Whitespace THEN lstrip(Tail(str)) ELSE str

RECURSIVE rstrip(_)
rstrip(str) ==
    IF str # <<>> /\ str[Len(str)] \in Whitespace
    THEN rstrip(SubSeq(str, 1, Len(str) - 1))
    ELSE str

strip(str) == rstrip(lstrip(str))

IsDigitChar(c) == \E i \in 1..Len(Digits) : Digits[i] = c

DigitVal(c) == (CHOOSE i \in 1..Len(Digits) : Digits[i] = c) - 1

\* str.isdigit(): non-empty and every character a digit
isdigit(str) == str # <<>> /\ \A i \in 1..Len(str) : IsDigitChar(str[i])

\* int(str) of a digit string
RECURSIVE int(_)
int(str) ==
    IF str = <<>> THEN 0
    ELSE int(SubSeq(str, 1, Len(str) - 1)) * 10 + DigitVal(str[Len(str)])

\* str.replace(c, "")
RECURSIVE remove(_, _)
remove(str, c) ==
    IF str = <<>> THEN <<>>
    ELSE IF Head(str) = c THEN remove(Tail(str), c)
    ELSE <<Head(str)>> \o remove(Tail(str), c)

\* index of the first occurrence of sep in str, 0 when there is none
FirstIndex(str, sep) ==
    LET hits == {i \in 1..(Len(str) - Len(sep) + 1) :
                    SubSeq(str, i, i + Len(sep) - 1) = sep}
    IN  IF hits = {} THEN 0
        ELSE CHOOSE i \in hits : \A j \in hits : i <= j

\* str.split(sep, 1): one or two parts
split1(str, sep) ==
    LET i == FirstIndex(str, sep)
    IN  IF i = 0 THEN <<str>>
        ELSE <<SubSeq(str, 1, i - 1), SubSeq(str, i + Len(sep), Len(str))>>

---------------------------------------------------------------------------
(* The parsed tree and the node operations of BeautifulSoup                *)

\* an element: tag name, class tokens, id, data-section, rel tokens, href
Elem(p, t, c) ==
    [parent |-> p, kind |-> "elem", tag |-> t, cls |-> c, id |-> "",
     dsec |-> "", rel |-> <<>>, hasHref |-> FALSE, href |-> <<>>, text |-> <<>>]

\* a text fragment (NavigableString)
Text(p, chars) ==
    [parent |-> p, kind |-> "text", tag |-> "", cls |-> <<>>, id |-> "",
     dsec |-> "", rel |-> <<>>, hasHref |-> FALSE, href |-> <<>>, text |-> chars]

Indices(d) == [k \in 1..Len(d) |-> k]

\* tag.contents
contents(d, i) == SelectSeq(Indices(d), LAMBDA j : d[j].parent = i)

\* j lies below i (0 is the soup: everything lies below it)
RECURSIVE Below(_, _, _)
Below(d, j, i) ==
    \/ i = 0
    \/ d[j].parent = i
    \/ d[j].parent # 0 /\ Below(d, d[j].parent, i)

\* tag.string: the single text child, through single element children
RECURSIVE string(_, _)
string(d, i) ==
    LET kids == contents(d, i)
    IN  IF Len(kids) # 1 THEN PyNone
        ELSE IF d[kids[1]].kind = "text" THEN PyStr(d[kids[1]].text)
        ELSE string(d, kids[1])

\* tag.strings: every text fragment below i, in document order
strings(d, i) ==
    LET hits == SelectSeq(Indices(d), LAMBDA j : d[j].kind = "text" /\ Below(d, j, i))
    IN  [k \in 1..Len(hits) |-> d[hits[k]].text]

Tokens(seq) == {seq[k] : k \in 1..Len(seq)}

\* class_=query: one of the element's class tokens equals the query, or the
\* whole class attribute does (the only way a query of several tokens matches)
ClassIs(node, query) ==
    \/ Len(query) = 1 /\ query[1] \in Tokens(node.cls)
    \/ node.cls # <<>> /\ node.cls = query

\* find_all(class_=query) below i
find_all_class(d, i, query) ==
    SelectSeq(Indices(d),
              LAMBDA j : d[j].kind = "elem" /\ Below(d, j, i) /\ ClassIs(d[j], query))

\* find(...): the first match, or None (0)
First(hits) == IF hits = <<>> THEN 0 ELSE hits[1]

find_class(d, i, query) == First(find_all_class(d, i, query))

\* find(id=ident)
find_id(d, ident) ==
    First(SelectSeq(Indices(d), LAMBDA j : d[j].kind = "elem" /\ d[j].id = ident))

\* find(attrs={"data-section": value})
find_dsec(d, value) ==
    First(SelectSeq(Indices(d), LAMBDA j : d[j].kind = "elem" /\ d[j].dsec = value))

\* find_all('link', rel="canonical", href=True)
find_all_canonical(d) ==
    SelectSeq(Indices(d),
              LAMBDA j : /\ d[j].kind = "elem"
                         /\ d[j].tag = "link"
                         /\ "canonical" \in Tokens(d[j].rel)
                         /\ d[j].hasHref)

---------------------------------------------------------------------------
(* The class strings, ids and attributes the accessors search for          *)

NameClass == <<"pv-top-card-section__name", "Sans-26px-black-85%">>

SkillClass == <<"pv-skill-entity__skill-name">>

BioClass == <<"pv-top-card-section__summary", "Sans-15px-black-70%", "mt5", "pt5", "ember-view">>

MediaClass == <<"pv-treasury-carousel__subheadline">>

AccompClass1 == <<"pv-profile-section", "artdeco-container-card", "pv-accomplishments-section", "ember-view">>

AccompClass2 == <<"pv-profile-section", "pv-accomplishments-section", "artdeco-container-card", "ember-view">>

TitleClass == <<"pv-accomplishments-block__title">>

ItemClass == <<"pv-accomplishments-block__summary-list-item">>

S_500plus == <<"5","0","0","+">>

S_SeeMore == <<"S","e","e"," ","m","o","r","e">>

S_in == <<"/","i","n","/">>

S_Language == <<"L","a","n","g","u","a","g","e">>

S_Project == <<"P","r","o","j","e","c","t">>

S_Award == <<"A","w","a","r","d">>

S_HonorsAwards == <<"H","o","n","o","r","s"," ","&"," ","A","w","a","r","d","s">>

S_Organization == <<"O","r","g","a","n","i","z","a","t","i","o","n">>

S_Course == <<"C","o","u","r","s","e">>

Plural(str) == str \o <<"s">>

---------------------------------------------------------------------------
(* The accessor bodies (the functions the decorator wraps)                 *)

\* faulty variant: the id pattern tried before the class pattern
name_id_first(d) ==
    LET first == find_id(d, "name")
        second == find_class(d, 0, NameClass)
    IN  IF first # 0 THEN string(d, first)
        ELSE IF second # 0 THEN string(d, second)
        ELSE Raise("TypeError", "Name not found in profile HTML")

\* Profile.name
name(d) ==
    LET first == find_class(d, 0, NameClass)
        second == find_id(d, "name")
    IN  IF first # 0 THEN string(d, first)
        ELSE IF second # 0 THEN string(d, second)
        ELSE Raise("TypeError", "Name not found in profile HTML")

\* the loop of Profile.skills over the candidates left to visit
RECURSIVE skills_loop(_, _, _)
skills_loop(d, skills_html, skills_array) ==
    IF skills_html = <<>> THEN PyList(skills_array)
    ELSE LET skill == Head(skills_html)
             rest == Tail(skills_html)
         IN  IF "see-more" \in Tokens(d[skill].cls) THEN skills_loop(d, rest, skills_array)
             ELSE IF "see-less" \in Tokens(d[skill].cls) THEN skills_loop(d, rest, skills_array)
             ELSE IF find_all_class(d, skill, <<"skill", "see-more">>) # <<>>
                  THEN skills_loop(d, rest, skills_array)
             ELSE IF string(d, skill).kind = "None" THEN NoneAttr
             ELSE skills_loop(d, rest,
                      Append(skills_array, PyStr(strip(lower(string(d, skill).s)))))

\* Profile.skills
skills(d) ==
    LET primary == find_all_class(d, 0, SkillClass)
        skills_html == IF Len(primary) = 0 THEN find_all_class(d, 0, <<"skill">>)
                       ELSE primary
    IN  skills_loop(d, skills_html, <<>>)

\* Profile.username
username(d) ==
    LET url_links == find_all_canonical(d)
    IN  IF url_links = <<>> THEN Raise("IndexError", "list index out of range")
        ELSE LET parts == split1(d[url_links[1]].href, S_in)
             IN  IF Len(parts) < 2 THEN Raise("IndexError", "list index out of range")
                 ELSE PyStr(parts[2])

\* Profile.location
location(d) ==
    LET location_tag == find_class(d, 0, <<"locality">>)
    IN  IF location_tag # 0 THEN string(d, location_tag) ELSE PyNone

\* Profile.all_companies
all_companies(d) ==
    LET experience_tag == find_class(d, 0, <<"positions">>)
        found == find_all_class(d, experience_tag, <<"item-subtitle">>)
    IN  IF experience_tag = 0 THEN PyList(<<>>)
        ELSE PyList([k \in 1..Len(found) |-> string(d, found[k])])

\* faulty variant: the loop stops at the first fragment that counts
connection_loop_first(frags, cons) ==
    LET hits == {k \in 1..Len(frags) : isdigit(frags[k]) \/ frags[k] = S_500plus}
        k == CHOOSE i \in hits : \A j \in hits : i <= j
    IN  IF hits = {} THEN cons
        ELSE IF isdigit(frags[k]) THEN int(frags[k]) ELSE 500

\* the loop of Profile.connection_count over the fragments left to visit
RECURSIVE connection_loop(_, _)
connection_loop(frags, cons) ==
    IF frags = <<>> THEN cons
    ELSE IF isdigit(Head(frags)) THEN connection_loop(Tail(frags), int(Head(frags)))
    ELSE IF Head(frags) = S_500plus THEN connection_loop(Tail(frags), 500)
    ELSE connection_loop(Tail(frags), cons)

\* Profile.connection_count
connection_count(d) ==
    LET conn_tag == find_class(d, 0, <<"member-connections">>)
    IN  IF conn_tag = 0 THEN PyNone
        ELSE PyInt(connection_loop(strings(d, conn_tag), 0))

\* the loop of Profile.get_bio, which breaks at "See more"
RECURSIVE bio_loop(_, _)
bio_loop(frags, bio) ==
    IF frags = <<>> THEN bio
    ELSE IF Head(frags) # S_SeeMore THEN bio_loop(Tail(frags), bio \o Head(frags))
    ELSE bio

\* Profile.get_bio
get_bio(d) ==
    LET bio_tag == find_class(d, 0, BioClass)
    IN  IF bio_tag = 0 THEN PyStr(<<>>)
        ELSE PyStr(remove(bio_loop(strings(d, bio_tag), <<>>), "\n"))

\* the loop of Profile.get_media_number over the characters left to visit
RECURSIVE media_loop(_, _)
media_loop(chars, media_num) ==
    IF chars = <<>> THEN media_num
    ELSE IF IsDigitChar(Head(chars))
         THEN media_loop(Tail(chars), media_num * 10 + DigitVal(Head(chars)))
    ELSE media_loop(Tail(chars), media_num)

\* Profile.get_media_number
get_media_number(d) ==
    LET media_title == find_class(d, 0, MediaClass)
    IN  IF media_title = 0 THEN PyStr(<<>>)
        ELSE IF string(d, media_title).kind = "None"
             THEN Raise("TypeError", "NoneType object is not iterable")
        ELSE PyInt(media_loop(string(d, media_title).s, 0))

\* the container lookup shared by the accomplishments accessors
accomp_tag(d) ==
    LET first == find_class(d, 0, AccompClass1)
    IN  IF first = 0 THEN find_class(d, 0, AccompClass2) ELSE first

\* the loop over the title blocks, which breaks at the first matching one
RECURSIVE section_loop(_, _, _)
section_loop(d, sections, labels) ==
    IF sections = <<>> THEN PyList(<<>>)
    ELSE LET section == Head(sections)
             found == find_all_class(d, d[section].parent, ItemClass)
         IN  IF string(d, section).kind = "str" /\ string(d, section).s \in labels
             THEN PyList([k \in 1..Len(found) |-> string(d, found[k])])
             ELSE section_loop(d, Tail(sections), labels)

\* faulty variant: a missing container is taken for an empty one
accomplishments_guarded(d, labels) ==
    IF accomp_tag(d) = 0 THEN PyList(<<>>)
    ELSE section_loop(d, find_all_class(d, accomp_tag(d), TitleClass), labels)

\* the body the accomplishments accessors share, for the labels of one of them
accomplishments(d, labels) ==
    IF accomp_tag(d) = 0 THEN NoneAttr
    ELSE section_loop(d, find_all_class(d, accomp_tag(d), TitleClass), labels)

get_languages(d) == accomplishments(d, {S_Language, Plural(S_Language)})

get_projects(d) == accomplishments(d, {S_Project, Plural(S_Project)})

get_awards(d) == accomplishments(d, {S_HonorsAwards, S_Award})

get_organizations(d) == accomplishments(d, {Plural(S_Organization), S_Organization})

get_courses(d) == accomplishments(d, {Plural(S_Course), S_Course})

\* Profile.get_certification: returns before its lookup
get_certification(d) == PyInt(0)

---------------------------------------------------------------------------
(* The cache decorator and the memoized properties                         *)

MemoFields == {"name", "skills", "username", "location", "current_company",
               "all_companies", "connection_count"}

\* faulty variant: current_company decorated with the cache variable of all_companies
cache_var_shared(f) ==
    CASE f = "name" -> "__name"
      [] f = "skills" -> "__skills"
      [] f = "username" -> "__username"
      [] f = "location" -> "__location"
      [] f = "current_company" -> "__all_companies"
      [] f = "all_companies" -> "__all_companies"
      [] f = "connection_count" -> "__connection_count"

\* the argument of @cache(...) on each property
cache_var(f) ==
    CASE f = "name" -> "__name"
      [] f = "skills" -> "__skills"
      [] f = "username" -> "__username"
      [] f = "location" -> "__location"
      [] f = "current_company" -> "__current_company"
      [] f = "all_companies" -> "__all_companies"
      [] f = "connection_count" -> "__connection_count"

CacheVars == {cache_var(f) : f \in MemoFields}

\* faulty variant: a stored None counts as nothing stored
hasattr_not_none(a, v) == a[v].set /\ a[v].val.kind # "None"

hasattr(a, v) == a[v].set

getattr(a, v) == a[v].val

setattr(a, v, value) == [a EXCEPT ![v] = [set |-> TRUE, val |-> value]]

\* what a call leaves: the instance's attributes, what it returned or raised,
\* and the accessors whose lookup over the document ran
Ran(a, f, value) == [attrs |-> a, out |-> value, ran |-> {f}]

\* faulty variant: the attribute is set before the body runs, and stays set when it raises
wrapper_preset(v, a, body) ==
    IF ~hasattr(a, v) THEN
        IF IsRaise(body.out)
        THEN [attrs |-> setattr(body.attrs, v, PyNone), out |-> body.out, ran |-> body.ran]
        ELSE [attrs |-> setattr(body.attrs, v, body.out),
              out |-> getattr(setattr(body.attrs, v, body.out), v),
              ran |-> body.ran]
    ELSE [attrs |-> a, out |-> getattr(a, v), ran |-> {}]

\* cache(cache_var).wrapper around a body whose run comes to `body`
wrapper(v, a, body) ==
    IF ~hasattr(a, v) THEN
        IF IsRaise(body.out) THEN body
        ELSE [attrs |-> setattr(body.attrs, v, body.out),
              out |-> getattr(setattr(body.attrs, v, body.out), v),
              ran |-> body.ran]
    ELSE [attrs |-> a, out |-> getattr(a, v), ran |-> {}]

call_name(d, a) == wrapper(cache_var("name"), a, Ran(a, "name", name(d)))

call_skills(d, a) == wrapper(cache_var("skills"), a, Ran(a, "skills", skills(d)))

call_username(d, a) == wrapper(cache_var("username"), a, Ran(a, "username", username(d)))

call_location(d, a) == wrapper(cache_var("location"), a, Ran(a, "location", location(d)))

call_all_companies(d, a) ==
    wrapper(cache_var("all_companies"), a, Ran(a, "all_companies", all_companies(d)))

call_connection_count(d, a) ==
    wrapper(cache_var("connection_count"), a,
            Ran(a, "connection_count", connection_count(d)))

\* Profile.current_company, which reads the property all_companies
current_company(d, a) ==
    LET company_tag == find_dsec(d, "currentPositionsDetails")
        org == find_class(d, company_tag, <<"org">>)
        companies == call_all_companies(d, a)
        headline == find_class(d, 0, <<"headline", "title">>)
        me == {"current_company"}
    IN  IF company_tag # 0
        THEN Ran(a, "current_company", IF org = 0 THEN NoneAttr ELSE string(d, org))
        ELSE IF IsRaise(companies.out)
             THEN [companies EXCEPT !.ran = @ \cup me]
        ELSE IF Len(companies.out.l) # 0
             THEN [attrs |-> companies.attrs, out |-> companies.out.l[1],
                   ran |-> companies.ran \cup me]
        ELSE IF headline # 0
             THEN [attrs |-> companies.attrs, out |-> string(d, headline),
                   ran |-> companies.ran \cup me]
        ELSE [attrs |-> companies.attrs, out |-> PyNone, ran |-> companies.ran \cup me]

call_current_company(d, a) ==
    wrapper(cache_var("current_company"), a, current_company(d, a))

\* the accessors without the decorator run their body on every call
Plain(a, f, value) == [attrs |-> a, out |-> value, ran |-> {f}]

---------------------------------------------------------------------------
(* Documents: the trees the HTML parser hands to Profile.__init__          *)

\* frag placed below node `at` of doc (0: at the top level), after doc's nodes
Under(doc, at, frag) ==
    doc \o [i \in 1..Len(frag) |->
               [frag[i] EXCEPT !.parent = IF @ = 0 THEN at ELSE @ + Len(doc)]]

RECURSIVE UnderAll(_, _, _)
UnderAll(doc, at, frags) ==
    IF frags = <<>> THEN doc
    ELSE UnderAll(Under(doc, at, Head(frags)), at, Tail(frags))

\* <t class=c>chars</t>
Leaf(t, c, chars) == <<Elem(0, t, c), Text(1, chars)>>

\* <t class=c>a<b>b</b></t>: an element holding text and a nested element
Mixed(t, c, a, b) == <<Elem(0, t, c), Text(1, a), Elem(1, "b", <<>>), Text(3, b)>>

\* <t class=c> frags... </t>
Box(t, c, frags) == UnderAll(<<Elem(0, t, c)>>, 1, frags)

WithId(frag, ident) == [frag EXCEPT ![1].id = ident]

WithDsec(frag, value) == [frag EXCEPT ![1].dsec = value]

Link(relTokens, withHref, target) ==
    <<[Elem(0, "link", <<>>) EXCEPT !.rel = relTokens, !.hasHref = withHref, !.href = target]>>

T_Al == <<"A","l">>

T_Bo == <<"B","o">>

T_Ny == <<"N","Y">>

T_Hq == <<"C","E","O">>

T_Org == <<"O","r","g">>

\* the text of the k-th company of the experience section
CompanyText(k) == <<"C", Digits[k + 1]>>

NameChoices ==
    {UnderAll(<<>>, 0, <<first, second>>) :
        first \in {<<>>, Leaf("h1", NameClass, T_Al), Mixed("h1", NameClass, T_Al, T_Bo),
                   Leaf("h1", <<NameClass[2], NameClass[1]>>, T_Al)},
        second \in {<<>>, WithId(Leaf("span", <<>>, T_Bo), "name"),
                    WithId(Mixed("span", <<>>, T_Bo, T_Al), "name")}}

LinkChoices ==
    {<<>>,
     Link(<<"canonical">>, TRUE, <<"h","/","i","n","/","b","o","b">>),
     Link(<<"canonical">>, TRUE, <<"h","/","i","n","/","a","/","i","n","/","b">>),
     Link(<<"canonical">>, TRUE, <<"h","/","p","u","b">>),
     Link(<<"canonical">>, FALSE, <<>>),
     Link(<<"stylesheet">>, TRUE, <<"h","/","i","n","/","b","o","b">>)}

LocationChoices ==
    {<<>>, Leaf("span", <<"locality">>, T_Ny), Mixed("span", <<"locality">>, T_Ny, T_Al)}

CurrentChoices ==
    {<<>>,
     WithDsec(Box("div", <<>>, <<Leaf("span", <<"org">>, T_Org)>>), "currentPositionsDetails"),
     WithDsec(Box("div", <<>>, <<Mixed("span", <<"org">>, T_Org, T_Al)>>), "currentPositionsDetails"),
     WithDsec(Box("div", <<>>, <<Leaf("span", <<"title">>, T_Hq)>>), "currentPositionsDetails")}

\* the experience section with n companies, the first one with or without
\* a text of its own
Positions(n, plain) ==
    Box("ul", <<"positions">>,
        [k \in 1..n |-> IF k = 1 /\ ~plain
                        THEN Mixed("li", <<"item-subtitle">>, CompanyText(k), T_Al)
                        ELSE Leaf("li", <<"item-subtitle">>, CompanyText(k))])

HeadlineChoices == {<<>>, Leaf("p", <<"headline", "title">>, T_Hq)}

\* the connections block, each text fragment in an element of its own
Connections(frags) ==
    Box("div", <<"member-connections">>,
        [k \in 1..Len(frags) |-> Leaf("strong", <<>>, frags[k])])

\* the sequences over S of length at most n
SeqsUpTo(S, n) == UNION {[1..k -> S] : k \in 0..n}

MaxFrags == 3

MaxCompanies == 2

MaxSkills == 3

MaxItems == 2

MaxBlocks == 2

FragTexts == {<<"3","7">>, <<"0","5">>, S_500plus, <<"c","o","n","n">>}

ConnectionChoices == {<<>>} \cup {Connections(frags) : frags \in SeqsUpTo(FragTexts, MaxFrags)}

PositionChoices ==
    {<<>>} \cup {Positions(n, plain) : n \in 0..MaxCompanies, plain \in BOOLEAN}

\* one entry of the skills section
SkillEntries ==
    {Leaf("span", SkillClass, <<" ","P","y">>),
     Leaf("span", SkillClass, <<"S","Q","L","\n">>),
     Leaf("span", SkillClass \o <<"see-more">>, <<"S","e","e"," ","3","+">>),
     Leaf("span", SkillClass \o <<"see-less">>, <<"S","e","e"," ","l","e","s","s">>),
     Box("span", SkillClass, <<Leaf("span", <<"skill", "see-more">>, S_SeeMore)>>),
     Leaf("span", <<"skill">>, <<"G","o">>),
     Mixed("span", SkillClass, <<"C">>, <<"+","+">>)}

SkillsChoices ==
    {<<>>} \cup {Box("ol", <<"skills-list">>, entries) : entries \in SeqsUpTo(SkillEntries, MaxSkills)}

BioChoices ==
    {<<>>,
     Box("p", BioClass, <<>>),
     Box("p", BioClass, <<Leaf("span", <<>>, <<"H","i","\n">>), Leaf("span", <<>>, <<" ","y","o","u">>),
                          Leaf("a", <<>>, S_SeeMore), Leaf("span", <<>>, <<"h","i","d">>)>>)}

MediaChoices ==
    {<<>>,
     Leaf("h3", MediaClass, <<"1",",","2","3","4"," ","m","e","d","i","a">>),
     Leaf("h3", MediaClass, <<"m","e","d","i","a">>),
     Mixed("h3", MediaClass, <<"1","2">>, <<"m","e","d","i","a">>)}

\* the text of the k-th item of the b-th accomplishments block
ItemText(b, k) == <<Digits[b + 1], ".", Digits[k + 1]>>

BlockLabels == {Plural(S_Language), S_Language, Plural(S_Project), Plural(S_Course)}

\* a block is its title's label and the number of its items
Blocks == [label : BlockLabels, items : 0..MaxItems]

\* the b-th block's title, and its items after it
BlockTitle(block) == Leaf("h3", TitleClass, block.label)

BlockItems(block, b) == [k \in 1..block.items |-> Leaf("li", ItemClass, ItemText(b, k))]

\* nested: each block in an element of its own, the items in a list beside the title;
\* otherwise the titles and the items are all children of the container
Accomplishments(class, blocks, nested) ==
    Box("section", class,
        IF nested
        THEN [b \in 1..Len(blocks) |->
                 Box("div", <<"pv-accomplishments-block">>,
                     <<BlockTitle(blocks[b]), Box("ul", <<>>, BlockItems(blocks[b], b))>>)]
        ELSE [b \in 1..Len(blocks) |->
                 UnderAll(<<>>, 0, <<BlockTitle(blocks[b])>> \o BlockItems(blocks[b], b))])

AccomplishmentsChoices ==
    {<<>>} \cup {Accomplishments(class, blocks, nested) :
                    class \in {AccompClass1, AccompClass2},
                    blocks \in SeqsUpTo(Blocks, MaxBlocks), nested \in BOOLEAN}

\* the page: its sections in document order
Render(p) ==
    UnderAll(<<>>, 0, <<p.name, p.link, p.loc, p.cur, p.pos, p.head, p.conn,
                        p.skills, p.bio, p.media, p.acc>>)

\* a page with none of the structures the accessors look for
Blank == [name |-> <<>>, link |-> <<>>, loc |-> <<>>, cur |-> <<>>, pos |-> <<>>,
          head |-> <<>>, conn |-> <<>>, skills |-> <<>>, bio |-> <<>>, media |-> <<>>,
          acc |-> <<>>]

\* a page with every one of them, well formed
Full == [name |-> Leaf("h1", NameClass, T_Al),
         link |-> Link(<<"canonical">>, TRUE, <<"h","/","i","n","/","b","o","b">>),
         loc |-> Leaf("span", <<"locality">>, T_Ny),
         cur |-> <<>>,
         pos |-> Positions(MaxCompanies, TRUE),
         head |-> Leaf("p", <<"headline", "title">>, T_Hq),
         conn |-> Connections(<<S_500plus, <<"c","o","n","n">>>>),
         skills |-> Box("ol", <<"skills-list">>, <<Leaf("span", SkillClass, <<" ","P","y">>)>>),
         bio |-> Box("p", BioClass, <<Leaf("span", <<>>, <<"H","i","\n">>)>>),
         media |-> Leaf("h3", MediaClass, <<"1",",","2","3","4"," ","m","e","d","i","a">>),
         acc |-> Accomplishments(AccompClass2,
                                 <<[label |-> Plural(S_Language), items |-> 1]>>, TRUE)]

---------------------------------------------------------------------------
(* The instance: its document, its attributes, and the last call made      *)

PlainFields == {"get_bio", "get_media_number", "get_languages", "get_certification",
                "get_projects", "get_awards", "get_organizations", "get_courses"}

Accessors == MemoFields \cup PlainFields

NoAttrs == [v \in CacheVars |-> [set |-> FALSE, val |-> PyNone]]

\* accessor f on an instance with document d and attributes a
Call(f, d, a) ==
    CASE f = "name" -> call_name(d, a)
      [] f = "skills" -> call_skills(d, a)
      [] f = "username" -> call_username(d, a)
      [] f = "location" -> call_location(d, a)
      [] f = "current_company" -> call_current_company(d, a)
      [] f = "all_companies" -> call_all_companies(d, a)
      [] f = "connection_count" -> call_connection_count(d, a)
      [] f = "get_bio" -> Plain(a, f, get_bio(d))
      [] f = "get_media_number" -> Plain(a, f, get_media_number(d))
      [] f = "get_languages" -> Plain(a, f, get_languages(d))
      [] f = "get_certification" -> Plain(a, f, get_certification(d))
      [] f = "get_projects" -> Plain(a, f, get_projects(d))
      [] f = "get_awards" -> Plain(a, f, get_awards(d))
      [] f = "get_organizations" -> Plain(a, f, get_organizations(d))
      [] f = "get_courses" -> Plain(a, f, get_courses(d))

\* Profile.__init__ on the page d
Fresh(d) ==
    /\ soup = d
    /\ attrs = NoAttrs
    /\ called = ""
    /\ out = PyNone
    /\ ran = {}
    /\ again = FALSE
    /\ hist = [f \in MemoFields |-> [seen |-> FALSE, val |-> PyNone]]

\* what one call of accessor f by the instance's user leaves
Do(f) ==
    LET r == Call(f, soup, attrs)
    IN  /\ out' = r.out
        /\ ran' = r.ran
        /\ attrs' = r.attrs
        /\ again' = IF f \in MemoFields THEN hist[f].seen ELSE FALSE
        /\ hist' = IF f \in MemoFields
                   THEN [hist EXCEPT ![f] = [seen |-> TRUE, val |-> r.out]]
                   ELSE hist
        /\ UNCHANGED soup

Name ==
    /\ called' = "name"
    /\ Do("name")

Skills ==
    /\ called' = "skills"
    /\ Do("skills")

Username ==
    /\ called' = "username"
    /\ Do("username")

Location ==
    /\ called' = "location"
    /\ Do("location")

CurrentCompany ==
    /\ called' = "current_company"
    /\ Do("current_company")

AllCompanies ==
    /\ called' = "all_companies"
    /\ Do("all_companies")

ConnectionCount ==
    /\ called' = "connection_count"
    /\ Do("connection_count")

GetBio ==
    /\ called' = "get_bio"
    /\ Do("get_bio")

GetMediaNumber ==
    /\ called' = "get_media_number"
    /\ Do("get_media_number")

GetLanguages ==
    /\ called' = "get_languages"
    /\ Do("get_languages")

GetCertification ==
    /\ called' = "get_certification"
    /\ Do("get_certification")

GetProjects ==
    /\ called' = "get_projects"
    /\ Do("get_projects")

GetAwards ==
    /\ called' = "get_awards"
    /\ Do("get_awards")

GetOrganizations ==
    /\ called' = "get_organizations"
    /\ Do("get_organizations")

GetCourses ==
    /\ called' = "get_courses"
    /\ Do("get_courses")

\* the pages of Spec: each varies one part of the blank or of the full page
Pages ==
    {Render(p) : p \in {Blank, Full}}
    \cup {Render([Blank EXCEPT !.name = x]) : x \in NameChoices}
    \cup {Render([Full EXCEPT !.link = x]) : x \in LinkChoices}
    \cup {Render([Blank EXCEPT !.loc = x]) : x \in LocationChoices}
    \cup {Render([Blank EXCEPT !.cur = x, !.pos = y, !.head = z]) :
             x \in CurrentChoices, y \in {<<>>, Positions(MaxCompanies, TRUE)},
             z \in {Leaf("p", <<"headline", "title">>, T_Hq)}}
    \cup {Render([Blank EXCEPT !.pos = Positions(n, TRUE)]) : n \in 0..MaxCompanies}
    \cup {Render([Blank EXCEPT !.conn = Connections(frags)]) : frags \in SeqsUpTo(FragTexts, 1)}
    \cup {Render([Blank EXCEPT !.skills = Box("ol", <<"skills-list">>, <<x>>)]) :
             x \in {Leaf("span", <<"skill">>, <<"G","o">>), Mixed("span", SkillClass, <<"C">>, <<"+","+">>)}}
    \cup {Render([Blank EXCEPT !.bio = x]) : x \in BioChoices}
    \cup {Render([Blank EXCEPT !.media = x]) : x \in MediaChoices}

Init == \E d \in Pages : Fresh(d)

Next ==
    \/ Name
    \/ Skills
    \/ Username
    \/ Location
    \/ CurrentCompany
    \/ AllCompanies
    \/ ConnectionCount
    \/ GetBio
    \/ GetMediaNumber
    \/ GetLanguages
    \/ GetCertification
    \/ GetProjects
    \/ GetAwards
    \/ GetOrganizations
    \/ GetCourses

Spec == Init /\ [][Next]_vars

\* current_company and all_companies, over every experience section within the bound
InitCompanies ==
    \E x \in CurrentChoices, y \in PositionChoices, z \in HeadlineChoices :
        Fresh(Render([Blank EXCEPT !.cur = x, !.pos = y, !.head = z]))

NextCompanies ==
    \/ CurrentCompany
    \/ AllCompanies

SpecCompanies == InitCompanies /\ [][NextCompanies]_vars

\* connection_count alone, over every connections block within the bound
InitConnections == \E x \in ConnectionChoices : Fresh(Render([Blank EXCEPT !.conn = x]))

NextConnections == ConnectionCount

SpecConnections == InitConnections /\ [][NextConnections]_vars

\* skills alone, over every skills section within the bound
InitSkills == \E x \in SkillsChoices : Fresh(Render([Blank EXCEPT !.skills = x]))

NextSkills == Skills

SpecSkills == InitSkills /\ [][NextSkills]_vars

\* the accomplishments accessors, over every container within the bounds
InitAccomplishments ==
    \E x \in AccomplishmentsChoices : Fresh(Render([Blank EXCEPT !.acc = x]))

NextAccomplishments ==
    \/ GetLanguages
    \/ GetCertification
    \/ GetProjects
    \/ GetAwards
    \/ GetOrganizations
    \/ GetCourses

SpecAccomplishments == InitAccomplishments /\ [][NextAccomplishments]_vars

---------------------------------------------------------------------------
(* What the properties below say of a page, read off the tree itself       *)

Min(S) == CHOOSE x \in S : \A y \in S : x <= y

Max(S) == CHOOSE x \in S : \A y \in S : y <= x

Elements(d) == {j \in 1..Len(d) : d[j].kind = "elem"}

PrimaryNames(d) == {j \in Elements(d) : d[j].cls = NameClass}

FallbackNames(d) == {j \in Elements(d) : d[j].id = "name"}

CanonicalLinks(d) == {j \in Elements(d) : d[j].tag = "link" /\ "canonical" \in Tokens(d[j].rel)}

Containers(d) == {j \in Elements(d) : d[j].cls \in {AccompClass1, AccompClass2}}

ConnectionBlocks(d) == {j \in Elements(d) : "member-connections" \in Tokens(d[j].cls)}

AccompFields == {"get_languages", "get_courses", "get_awards", "get_organizations",
                 "get_projects"}

SoftFields == {"skills", "location", "current_company", "all_companies",
               "connection_count", "get_bio", "get_media_number"}

---------------------------------------------------------------------------
(* C1: once a call of a memoized accessor has returned a value (None and   *)
(* the empty list included), every later call of it returns that value     *)
(* and runs no lookup over the document.                                   *)
C1_MemoizedOnce ==
    [][\A f \in MemoFields :
          (called' = f /\ hist[f].seen /\ ~IsRaise(hist[f].val))
              => (out' = hist[f].val /\ ran' = {})]_vars

\* location called a second time on a page without a locality: the stored None
C1_Witness ==
    /\ called = "location"
    /\ again
    /\ out = PyNone
    /\ ran = {}
    /\ find_class(soup, 0, <<"locality">>) = 0

(* C2: whatever was called before, on a given page every accessor comes to *)
(* what it comes to as the first call on a fresh instance (the same value  *)
(* or the same error).                                                     *)
C2_OrderIndependent ==
    called # "" => out = Call(called, soup, NoAttrs).out

\* all_companies, called for the first time, answers from the list that an
\* earlier current_company computed on demand
C2_Witness ==
    /\ called = "all_companies"
    /\ ~again
    /\ ran = {}
    /\ hist["current_company"].seen
    /\ Len(out.l) > 0

(* C3: name returns the text of the first element of the composite class;  *)
(* without one, the text of the element of id "name"; without either it    *)
(* raises TypeError("Name not found in profile HTML").                     *)
C3_NameFallbackOrder ==
    called = "name" =>
        IF PrimaryNames(soup) # {} THEN out = string(soup, Min(PrimaryNames(soup)))
        ELSE IF FallbackNames(soup) # {} THEN out = string(soup, Min(FallbackNames(soup)))
        ELSE out = Raise("TypeError", "Name not found in profile HTML")

\* a page without the primary pattern and with the fallback: the fallback's text
C3_Witness ==
    /\ called = "name"
    /\ PrimaryNames(soup) = {}
    /\ FallbackNames(soup) # {}
    /\ out = PyStr(T_Bo)

\* the first of the values that is not None, None when there is none
RECURSIVE FirstNonEmpty(_)
FirstNonEmpty(values) ==
    IF values = <<>> THEN PyNone
    ELSE IF Head(values) # PyNone THEN Head(values)
    ELSE FirstNonEmpty(Tail(values))

CurrentSections(d) == {j \in Elements(d) : d[j].dsec = "currentPositionsDetails"}

\* (a) the organization text nested in the current-position section
OrgText(d) ==
    LET orgs == {j \in Elements(d) : /\ CurrentSections(d) # {}
                                     /\ Below(d, j, Min(CurrentSections(d)))
                                     /\ "org" \in Tokens(d[j].cls)}
    IN  IF orgs = {} THEN PyNone ELSE string(d, Min(orgs))

\* (b) the first entry of all_companies
FirstCompany(d) ==
    IF all_companies(d).l = <<>> THEN PyNone ELSE all_companies(d).l[1]

\* (c) the text of the headline element
HeadlineText(d) ==
    LET heads == {j \in Elements(d) : d[j].cls = <<"headline", "title">>}
    IN  IF heads = {} THEN PyNone ELSE string(d, Min(heads))

(* C4: current_company returns the first non-empty of the organization     *)
(* text of the current-position section, the first entry of all_companies, *)
(* the headline's text, and None.                                          *)
C4_FirstNonEmpty ==
    called = "current_company" =>
        out = FirstNonEmpty(<<OrgText(soup), FirstCompany(soup), HeadlineText(soup)>>)

\* a fragment that counts: purely digits, or exactly "500+"
Counts(frag) == (frag # <<>> /\ Tokens(frag) \subseteq Tokens(Digits)) \/ frag = S_500plus

CountOf(frag) == IF frag = S_500plus THEN 500 ELSE int(frag)

Candidates(d) ==
    LET primary == SelectSeq(Indices(d), LAMBDA j : j \in Elements(d) /\ SkillClass[1] \in Tokens(d[j].cls))
        fallback == SelectSeq(Indices(d), LAMBDA j : j \in Elements(d) /\ "skill" \in Tokens(d[j].cls))
    IN  IF primary # <<>> THEN primary ELSE fallback

\* neither marker in the class set, and no nested "see more" element
Ordinary(d, j) ==
    /\ "see-more" \notin Tokens(d[j].cls)
    /\ "see-less" \notin Tokens(d[j].cls)
    /\ ~\E k \in Elements(d) : Below(d, k, j) /\ d[k].cls = <<"skill", "see-more">>

(* C6: skills returns, in document order, the lowercased and trimmed text  *)
(* of exactly the candidates that are ordinary; the empty list when there  *)
(* is no candidate.                                                        *)
C6_SkillsFiltered ==
    called = "skills" =>
        LET kept == SelectSeq(Candidates(soup), LAMBDA j : Ordinary(soup, j))
        IN  out = PyList([k \in 1..Len(kept) |-> PyStr(strip(lower(string(soup, kept[k]).s)))])

\* the title blocks and the items of the container, in document order
TitleBlocks(d) ==
    SelectSeq(Indices(d), LAMBDA j : /\ j \in Elements(d)
                                     /\ TitleClass[1] \in Tokens(d[j].cls)
                                     /\ Below(d, j, Min(Containers(d))))

\* the items under title block t: those after it and before the next title block
ItemsUnder(d, t) ==
    SelectSeq(Indices(d),
              LAMBDA j : /\ j \in Elements(d)
                         /\ ItemClass[1] \in Tokens(d[j].cls)
                         /\ j > t
                         /\ ~\E u \in Elements(d) : /\ TitleClass[1] \in Tokens(d[u].cls)
                                                    /\ t < u
                                                    /\ u < j)

(* C7: get_languages returns the items under the first title block whose   *)
(* text is "Language" or "Languages", and only those, in document order,   *)
(* wherever the title blocks and the items lie in the container.           *)
C7_OnlyLanguageItems ==
    (called = "get_languages" /\ Containers(soup) # {}) =>
        LET matching == SelectSeq(TitleBlocks(soup),
                                  LAMBDA t : string(soup, t) \in {PyStr(S_Language),
                                                                  PyStr(Plural(S_Language))})
            items == IF matching = <<>> THEN <<>> ELSE ItemsUnder(soup, matching[1])
        IN  out = PyList([k \in 1..Len(items) |-> string(soup, items[k])])

(* C8: skills, location, current_company, all_companies, connection_count, *)
(* get_bio and get_media_number never raise, whatever is missing from the  *)
(* page.                                                                   *)
C8_SoftAbsence ==
    called \in SoftFields => ~IsRaise(out)

(* C9: username raises when the page has no canonical link, and            *)
(* get_languages, get_courses, get_awards, get_organizations and           *)
(* get_projects raise when it has no accomplishments container.            *)
C9_StructuralErrorRaised ==
    /\ (called = "username" /\ CanonicalLinks(soup) = {}) => IsRaise(out)
    /\ (called \in AccompFields /\ Containers(soup) = {}) => IsRaise(out)

\* on a page with neither: get_projects raises, after username raised
C9_Witness ==
    /\ called = "get_projects"
    /\ Containers(soup) = {}
    /\ CanonicalLinks(soup) = {}
    /\ IsRaise(out)
    /\ hist["username"].seen
    /\ IsRaise(hist["username"].val)

(* C10: a call of a memoized accessor that raises leaves every attribute   *)
(* of the instance as it was; a later call of that accessor runs its       *)
(* lookup again and raises the same error; and every memoized accessor     *)
(* keeps returning what it returned before, raising calls in between or    *)
(* not.                                                                    *)
C10_FailureNotCached ==
    [][\A f \in MemoFields :
          called' = f =>
              /\ IsRaise(out') => attrs' = attrs
              /\ (hist[f].seen /\ IsRaise(hist[f].val)) => (out' = hist[f].val /\ f \in ran')
              /\ hist[f].seen => out' = hist[f].val]_vars

\* name raises a second time, its attribute still unset, location's value stored
C10_Witness ==
    /\ called = "name"
    /\ again
    /\ IsRaise(out)
    /\ "name" \in ran
    /\ ~hasattr(attrs, "__name")
    /\ hist["location"].seen
    /\ hasattr(attrs, "__location")

=============================================================================
